---- MODULE Spec2Model ----
(***************************************************************************)
(* The NBT decode engine of libminecraft-cpp (src/reader.cxx, src/nbt.h):  *)
(* read_nbt over a MemoryInputStream, one step per frame activation of     *)
(* process_read_state's loop.                                               *)
(*                                                                         *)
(* Integers wider than TLC's are kept as fixed-width big-endian sequences  *)
(* of base-256 digits ("digits"); a C++ integer VALUE is a sign-magnitude  *)
(* record [neg, mag] so that the two's-complement decoding is computed and *)
(* not assumed.                                                            *)
(***************************************************************************)
EXTENDS Integers, Sequences, FiniteSets, TLC

\* ------------------------------------------------------------------ bounds
\* most tags below the root in the documents built from the few leaf kinds
MaxTags == 2
\* deepest chain of containers above a leaf of any kind
MaxChain == 2
\* longest unstructured byte string offered as input
MaxRawLen == 4
\* smallest allocation request (in elements) that the allocator may refuse
AllocMayFailFrom == 16777216

\* ------------------------------------------------------ tag kinds (nbt.h)
TAG_TYPE_END == 0
TAG_TYPE_BYTE == 1
TAG_TYPE_SHORT == 2
TAG_TYPE_INT == 3
TAG_TYPE_LONG == 4
TAG_TYPE_FLOAT == 5
TAG_TYPE_DOUBLE == 6
TAG_TYPE_BYTE_ARRAY == 7
TAG_TYPE_STRING == 8
TAG_TYPE_LIST == 9
TAG_TYPE_COMPOUND == 10
TAG_TYPE_INT_ARRAY == 11

\* ------------------------------------------------- fixed-width arithmetic
RECURSIVE Zeros(_)
Zeros(n) == IF n = 0 THEN <<>> ELSE <<0>> \o Zeros(n - 1)

IsZero(d) == \A i \in 1..Len(d) : d[i] = 0

\* bitwise complement of a digit string (~v)
Compl(d) == [i \in 1..Len(d) |-> 255 - d[i]]

\* d + 1 modulo 2^(8*Len(d))
RECURSIVE Inc(_)
Inc(d) ==
  IF Len(d) = 0 THEN <<>>
  ELSE IF d[Len(d)] < 255 THEN [d EXCEPT ![Len(d)] = @ + 1]
  ELSE Append(Inc(SubSeq(d, 1, Len(d) - 1)), 0)

\* d - 1 modulo 2^(8*Len(d))
RECURSIVE Dec(_)
Dec(d) ==
  IF Len(d) = 0 THEN <<>>
  ELSE IF d[Len(d)] > 0 THEN [d EXCEPT ![Len(d)] = @ - 1]
  ELSE Append(Dec(SubSeq(d, 1, Len(d) - 1)), 255)

\* the sign bit ((IT) 1) << (size * 8 - 1) of a digit string is set
SignBitSet(d) == Len(d) > 0 /\ d[1] >= 128

\* a digit string whose value is below 2^24 (it fits a TLC integer)
Fits(d) == \A i \in 1..Len(d) : i <= Len(d) - 3 => d[i] = 0

RECURSIVE Val(_)
Val(d) == IF Len(d) = 0 THEN 0 ELSE 256 * Val(SubSeq(d, 1, Len(d) - 1)) + d[Len(d)]

\* the value of a digit string that Fits
SmallVal(d) == Val(SubSeq(d, IF Len(d) > 3 THEN Len(d) - 2 ELSE 1, Len(d)))

\* a size_t holding a small natural (size_t is modelled 8 bytes wide)
SizeT(d) == Zeros(8 - Len(d)) \o d

\* C++ integer values: sign and magnitude; zero is never negative
IntVal(neg, mag) == [neg |-> neg /\ ~IsZero(mag), mag |-> mag]

\* x - 1 on values (the magnitude keeps its width)
ValSub1(x) ==
  IF x.neg THEN IntVal(TRUE, Inc(x.mag))
  ELSE IF IsZero(x.mag) THEN IntVal(TRUE, Inc(x.mag))
  ELSE IntVal(FALSE, Dec(x.mag))

\* -x on values
ValNeg(x) == IntVal(~x.neg, x.mag)

\* the magnitude 2^(8*Len(d)-1), the only one whose negation is the minimum
IsMinMag(d) == Len(d) > 0 /\ d[1] = 128 /\ \A i \in 2..Len(d) : d[i] = 0

\* conversion of a value to the signed type of its magnitude's width
\* (modular, as the compilers the build supports convert)
ToSigned(x) ==
  IF ~x.neg /\ SignBitSet(x.mag) THEN IntVal(TRUE, Inc(Compl(x.mag)))
  ELSE IF x.neg /\ SignBitSet(x.mag) /\ ~IsMinMag(x.mag)
       THEN IntVal(FALSE, Inc(Compl(x.mag)))
  ELSE x

\* conversion of a value to the unsigned type of its magnitude's width
ToUnsigned(x) == IF x.neg THEN IntVal(FALSE, Inc(Compl(x.mag))) ELSE x

\* conversion to the type RT (signed or unsigned) of the same width
ConvTo(signed, x) == IF signed THEN ToSigned(x) ELSE ToUnsigned(x)

\* arithmetic on operands narrower than int is done in int and cannot wrap;
\* on 4 and 8 byte operands it is done in the operand type
InType(size, signed, x) == IF size >= 4 THEN ConvTo(signed, x) ELSE x

\* ----------------------------------------------------- the primitive codec
\* twos_complement_decode<size, RT, IT>(v): raw is the bit pattern of v,
\* rt_signed / it_signed tell whether RT / IT are signed types
twos_complement_decode(size, rt_signed, it_signed, raw) ==
  IF SignBitSet(raw)
  THEN LET abs_value == ConvTo(it_signed, IntVal(FALSE, Inc(Compl(raw))))
           cast == ConvTo(rt_signed, abs_value)
           minus1 == InType(size, rt_signed, ValSub1(cast))
           negated == InType(size, rt_signed, ValNeg(minus1))
       IN  ConvTo(rt_signed, ValSub1(negated))
  ELSE ConvTo(rt_signed, IntVal(FALSE, raw))

\* the evaluation above passes through a signed overflow (undefined)
twos_complement_overflows(size, rt_signed, it_signed, raw) ==
  size >= 4 /\ IsMinMag(raw) /\ (rt_signed \/ it_signed)

VARIABLES
  m_data,        \* MemoryInputStream: the bytes handed to the decoder
  m_position,    \* MemoryInputStream: bytes consumed so far
  pc,            \* "new" before the stream exists, then where read_nbt
                 \* stands: "start", "loop", "done", "error"
  tag_type_id,   \* read_nbt: the root kind id read from the stream
  root_tag,      \* read_nbt: the RootTag under construction
  io_state,      \* read_nbt: the frame stack (IoReadState), bottom first
  returned,      \* what the caller received: NoResult until read_nbt returns
  err,           \* the exception that left read_nbt, "none" if none did
  open,          \* history: containers whose decoding began (their frame was
                 \* created) and that finish_tag has not delivered yet
  activations,   \* history: turns of process_read_state's loop so far
  m_istream,     \* IStreamInputStream: the std::istream it wraps (the bytes
                 \* its source holds, its get position, its state bits)
  call           \* the last direct call of a codec operation and its outcome

\* what only the direct calls of the codec operations change
codec_vars == <<m_istream, call>>

vars == <<m_data, m_position, pc, tag_type_id, root_tag, io_state, returned, err,
          open, activations, m_istream, call>>

\* the outcome of a call that reads: the exception thrown ("none" if the call
\* returned), the stream position afterwards and the value returned
Ok(pos, val) == [err |-> "none", pos |-> pos, val |-> val]
Fail(e, pos) == [err |-> e, pos |-> pos, val |-> <<>>]

\* (mutant) the position moves to the end when the read fails
MemoryInputStream_read_moves_on_failure(pos, size) ==
  IF ~Fits(size) \/ Len(m_data) - pos < SmallVal(size)
  THEN Fail("PrematureEof", Len(m_data))
  ELSE Ok(pos + SmallVal(size), SubSeq(m_data, pos + 1, pos + SmallVal(size)))

\* MemoryInputStream::read(data, size) at position pos; size is a size_t
MemoryInputStream_read(pos, size) ==
  IF ~Fits(size) \/ Len(m_data) - pos < SmallVal(size)
  THEN Fail("PrematureEof", pos)
  ELSE Ok(pos + SmallVal(size), SubSeq(m_data, pos + 1, pos + SmallVal(size)))

\* the loop n = (n << 8) | data[i] over a T of `size` bytes
RECURSIVE shift_in(_, _)
shift_in(n, data) ==
  IF Len(data) = 0 THEN n
  ELSE shift_in(Append(Tail(n), Head(data)), Tail(data))

\* the one value of a one-element set: The({e(r) : r \in {call}}) is e with
\* r naming what the call returned, the call made once
The(S) == CHOOSE v \in S : TRUE

\* read_big_endian_unsigned_int<T, size>(s): the value as a digit string
read_big_endian_unsigned_int(pos, size) ==
  The({IF r.err # "none" THEN r ELSE Ok(r.pos, shift_in(Zeros(size), r.val)) :
         r \in {MemoryInputStream_read(pos, SizeT(<<size>>))}})

Tag(kind, value) == [kind |-> kind, value |-> value]
\* an empty std::unique_ptr<Tag>
NullTag == Tag(-1, <<>>)

\* read_simple_payload<TagType, RawType, raw_type_size>(s)
read_simple_payload(pos, kind, raw_type_size) ==
  The({IF r.err # "none" THEN r
       ELSE Ok(r.pos, Tag(kind, twos_complement_decode(raw_type_size, TRUE, FALSE, r.val))) :
         r \in {read_big_endian_unsigned_int(pos, raw_type_size)}})

\* std::vector::resize / reserve of `length` elements: a request of
\* AllocMayFailFrom elements or more is refused when alloc_ok is FALSE
alloc_fails(alloc_ok, length) ==
  ~alloc_ok /\ (~Fits(length) \/ SmallVal(length) >= AllocMayFailFrom)

read_byte_array_tag(pos, alloc_ok) ==
  The({IF r.err # "none" THEN r
       ELSE IF alloc_fails(alloc_ok, r.val) THEN Fail("bad_alloc", r.pos)
       ELSE The({IF data_r.err # "none" THEN data_r
                 ELSE Ok(data_r.pos, Tag(TAG_TYPE_BYTE_ARRAY, data_r.val)) :
                   data_r \in {MemoryInputStream_read(r.pos, SizeT(r.val))}}) :
         r \in {read_big_endian_unsigned_int(pos, 4)}})

\* the element loop of read_int_array_tag: `left` elements still to read
RECURSIVE read_int_array_loop(_, _, _)
read_int_array_loop(pos, left, values) ==
  IF IsZero(left) THEN Ok(pos, Tag(TAG_TYPE_INT_ARRAY, values))
  ELSE The({IF elem_r.err # "none" THEN elem_r
            ELSE LET decoded_int ==
                       ToSigned(twos_complement_decode(4, FALSE, TRUE, elem_r.val))
                 IN  read_int_array_loop(elem_r.pos, Dec(left),
                                         Append(values, decoded_int)) :
              elem_r \in {read_big_endian_unsigned_int(pos, 4)}})

read_int_array_tag(pos, alloc_ok) ==
  The({IF r.err # "none" THEN r
       ELSE IF alloc_fails(alloc_ok, r.val) THEN Fail("bad_alloc", r.pos)
       ELSE read_int_array_loop(r.pos, r.val, <<>>) :
         r \in {read_big_endian_unsigned_int(pos, 4)}})

\* read_float_tag<FloatTagType>(s): the bytes land in the object
\* representation of tag.value unchanged
read_float_tag(pos, kind, size) ==
  The({IF r.err # "none" THEN r ELSE Ok(r.pos, Tag(kind, r.val)) :
         r \in {MemoryInputStream_read(pos, SizeT(<<size>>))}})

\* read_string(s): a Utf8String, its data as a byte sequence
read_string(pos) ==
  The({IF r.err # "none" THEN r ELSE MemoryInputStream_read(r.pos, SizeT(r.val)) :
         r \in {read_big_endian_unsigned_int(pos, 2)}})

read_string_tag(pos) ==
  The({IF r.err # "none" THEN r ELSE Ok(r.pos, Tag(TAG_TYPE_STRING, r.val)) :
         r \in {read_string(pos)}})

read_simple_tag(pos, tag_type, alloc_ok) ==
  CASE tag_type = TAG_TYPE_BYTE -> read_simple_payload(pos, TAG_TYPE_BYTE, 1)
    [] tag_type = TAG_TYPE_SHORT -> read_simple_payload(pos, TAG_TYPE_SHORT, 2)
    [] tag_type = TAG_TYPE_INT -> read_simple_payload(pos, TAG_TYPE_INT, 4)
    [] tag_type = TAG_TYPE_LONG -> read_simple_payload(pos, TAG_TYPE_LONG, 8)
    [] tag_type = TAG_TYPE_FLOAT -> read_float_tag(pos, TAG_TYPE_FLOAT, 4)
    [] tag_type = TAG_TYPE_DOUBLE -> read_float_tag(pos, TAG_TYPE_DOUBLE, 8)
    [] tag_type = TAG_TYPE_BYTE_ARRAY -> read_byte_array_tag(pos, alloc_ok)
    [] tag_type = TAG_TYPE_STRING -> read_string_tag(pos)
    [] tag_type = TAG_TYPE_LIST -> Fail("logic_error", pos)
    [] tag_type = TAG_TYPE_COMPOUND -> Fail("logic_error", pos)
    [] tag_type = TAG_TYPE_INT_ARRAY -> read_int_array_tag(pos, alloc_ok)
    [] OTHER -> Fail("IoError: Unknown tag type in NBT", pos)

\* ------------------------------------------------------------ the frames
\* ReadRootTagState: its m_root_tag is the variable root_tag
ReadRootTagState == [cls |-> "Root"]

\* ReadCompoundTagState(): m_tag is the mapping under construction
ReadCompoundTagState ==
  [cls |-> "Compound", m_tag |-> <<>>, m_next_tag_name |-> <<>>]

\* ReadListTagState<T>(type_id, reads); T is named by the kind id of the
\* element class, TAG_TYPE_LIST standing for the base class Tag
ReadListTagState(T, type_id, reads) ==
  [cls |-> "List", T |-> T, m_type_id |-> type_id, m_list_tag |-> <<>>,
   m_remaining_reads |-> reads]

\* the values a finished frame hands over
CompoundTag(values) == Tag(TAG_TYPE_COMPOUND, values)
ListTag(T, values) == Tag(TAG_TYPE_LIST, [T |-> T, values |-> values])

\* the state of read_nbt's locals that an activation may change; began and
\* delivered count the containers whose frame the activation created and
\* the containers it handed to finish_tag
Step(e, pos, stack, root) ==
  [err |-> e, pos |-> pos, io_state |-> stack, root_tag |-> root,
   began |-> 0, delivered |-> 0]
Began(st) == [st EXCEPT !.began = 1]
Delivered(st) == [st EXCEPT !.delivered = 1]

\* (mutant) operator[] assignment: an existing key takes the new value
map_insert_overwrites(values, name, tag) ==
  [n \in DOMAIN values \cup {name} |-> IF n = name THEN tag ELSE values[n]]

\* (mutant) the pair is built and never inserted
map_insert_nothing(values, name, tag) == values

\* std::unordered_map::insert: an existing key keeps its value
map_insert(values, name, tag) ==
  IF name \in DOMAIN values THEN values ELSE values @@ (name :> tag)

\* (mutant) the Root frame lets go of the tag it is given
ReadRootTagState_add_tag_drops(root, tag) == root

\* ReadRootTagState::add_tag
ReadRootTagState_add_tag(root, tag) == [root EXCEPT !.tag = tag]

\* ReadCompoundTagState::add_tag
ReadCompoundTagState_add_tag(frame, tag) ==
  [frame EXCEPT !.m_tag = map_insert(frame.m_tag, frame.m_next_tag_name, tag)]

\* dynamic_cast<T *>(tag.get()) succeeds
dynamic_cast_ok(T, tag) == T = TAG_TYPE_LIST \/ tag.kind = T

\* (mutant) the element goes to the front of the vector
ReadListTagState_add_tag_in_front(frame, tag) ==
  [frame EXCEPT !.m_list_tag = <<tag>> \o frame.m_list_tag]

\* ReadListTagState<T>::add_tag with add_typed_tag; the caller checks
\* dynamic_cast_ok first
ReadListTagState_add_tag(frame, tag) ==
  [frame EXCEPT !.m_list_tag = Append(frame.m_list_tag, tag)]

\* (mutant) finish_tag without io_state.pop_back()
finish_tag_without_pop(tag, pos, stack, root) ==
  IF Len(stack) < 2 THEN Step("undefined", pos, stack, root)
  ELSE LET i == Len(stack) - 1
           parent == stack[i]
           popped == stack
       IN  CASE parent.cls = "Root" ->
                  Delivered(Step("none", pos, popped,
                                 ReadRootTagState_add_tag(root, tag)))
             [] parent.cls = "Compound" ->
                  Delivered(Step("none", pos,
                                 [popped EXCEPT ![i] =
                                    ReadCompoundTagState_add_tag(parent, tag)],
                                 root))
             [] parent.cls = "List" ->
                  IF dynamic_cast_ok(parent.T, tag)
                  THEN Delivered(Step("none", pos,
                                      [popped EXCEPT ![i] =
                                         ReadListTagState_add_tag(parent, tag)],
                                      root))
                  ELSE Step("logic_error", pos, stack, root)

\* (mutant) one pending name shared by all Compound frames: a Compound
\* parent inserts under the name its Compound child read last
finish_tag_names_by_child(tag, pos, stack, root) ==
  IF Len(stack) < 2 THEN Step("undefined", pos, stack, root)
  ELSE LET i == Len(stack) - 1
           parent == stack[i]
           popped == SubSeq(stack, 1, i)
       IN  CASE parent.cls = "Root" ->
                  Delivered(Step("none", pos, popped,
                                 ReadRootTagState_add_tag(root, tag)))
             [] parent.cls = "Compound" ->
                  Delivered(Step("none", pos,
                                 [popped EXCEPT ![i] =
                                    ReadCompoundTagState_add_tag(
                                      IF stack[i + 1].cls = "Compound"
                                      THEN [parent EXCEPT !.m_next_tag_name =
                                              stack[i + 1].m_next_tag_name]
                                      ELSE parent,
                                      tag)],
                                 root))
             [] parent.cls = "List" ->
                  IF dynamic_cast_ok(parent.T, tag)
                  THEN Delivered(Step("none", pos,
                                      [popped EXCEPT ![i] =
                                         ReadListTagState_add_tag(parent, tag)],
                                      root))
                  ELSE Step("logic_error", pos, stack, root)

\* TagReadState::finish_tag(tag, io_state)
finish_tag(tag, pos, stack, root) ==
  IF Len(stack) < 2 THEN Step("undefined", pos, stack, root)
  ELSE LET i == Len(stack) - 1
           parent == stack[i]
           popped == SubSeq(stack, 1, i)
       IN  CASE parent.cls = "Root" ->
                  Delivered(Step("none", pos, popped,
                                 ReadRootTagState_add_tag(root, tag)))
             [] parent.cls = "Compound" ->
                  Delivered(Step("none", pos,
                                 [popped EXCEPT ![i] =
                                    ReadCompoundTagState_add_tag(parent, tag)],
                                 root))
             [] parent.cls = "List" ->
                  IF dynamic_cast_ok(parent.T, tag)
                  THEN Delivered(Step("none", pos,
                                      [popped EXCEPT ![i] =
                                         ReadListTagState_add_tag(parent, tag)],
                                      root))
                  ELSE Step("logic_error", pos, stack, root)

\* (mutant) no case for TAG_TYPE_END: it falls to the default
new_list_read_state_without_end_case(pos, inner_tag_type, length) ==
  IF inner_tag_type \in TAG_TYPE_BYTE..TAG_TYPE_INT_ARRAY
  THEN Ok(pos, ReadListTagState(inner_tag_type, inner_tag_type, length))
  ELSE Fail("IoError: Unknown tag type in NBT for list", pos)

\* (mutant) the frame of a List of Lists is told to read Compounds
new_list_read_state_of_lists_reads_compounds(pos, inner_tag_type, length) ==
  IF inner_tag_type = TAG_TYPE_END
  THEN Fail("IoError: List tag had a tag type of TAG_End", pos)
  ELSE IF inner_tag_type = TAG_TYPE_LIST
  THEN Ok(pos, ReadListTagState(TAG_TYPE_LIST, TAG_TYPE_COMPOUND, length))
  ELSE IF inner_tag_type \in TAG_TYPE_BYTE..TAG_TYPE_INT_ARRAY
  THEN Ok(pos, ReadListTagState(inner_tag_type, inner_tag_type, length))
  ELSE Fail("IoError: Unknown tag type in NBT for list", pos)

new_list_read_state(pos, inner_tag_type, length) ==
  IF inner_tag_type = TAG_TYPE_END
  THEN Fail("IoError: List tag had a tag type of TAG_End", pos)
  ELSE IF inner_tag_type \in TAG_TYPE_BYTE..TAG_TYPE_INT_ARRAY
  THEN Ok(pos, ReadListTagState(inner_tag_type, inner_tag_type, length))
  ELSE Fail("IoError: Unknown tag type in NBT for list", pos)

new_read_state_for(pos, tag_type) ==
  IF tag_type = TAG_TYPE_COMPOUND THEN Ok(pos, ReadCompoundTagState)
  ELSE IF tag_type = TAG_TYPE_LIST
  THEN The({IF inner_tag_type_r.err # "none" THEN inner_tag_type_r
            ELSE The({IF length_r.err # "none" THEN length_r
                      ELSE new_list_read_state(length_r.pos,
                                               SmallVal(inner_tag_type_r.val),
                                               SizeT(length_r.val)) :
                        length_r \in
                          {read_big_endian_unsigned_int(inner_tag_type_r.pos, 4)}}) :
              inner_tag_type_r \in {read_big_endian_unsigned_int(pos, 1)}})
  ELSE Fail("logic_error", pos)

\* (mutant) the Root frame stays on the stack
ReadRootTagState_continue_read_keeps_frame(pos, stack, root) ==
  Step("none", pos, stack, root)

\* (mutant) the Root frame looks for one more kind byte before it goes
ReadRootTagState_continue_read_reads_on(pos, stack, root) ==
  The({Step(r.err, r.pos, SubSeq(stack, 1, Len(stack) - 1), root) :
         r \in {read_big_endian_unsigned_int(pos, 1)}})

\* ReadRootTagState::continue_read
ReadRootTagState_continue_read(pos, stack, root) ==
  Step("none", pos, SubSeq(stack, 1, Len(stack) - 1), root)

\* ReadCompoundTagState::continue_read of the top frame
ReadCompoundTagState_continue_read(pos, stack, root, alloc_ok) ==
  LET top == Len(stack)
      self == stack[top]
  IN  The({
      IF id.err # "none" THEN Step(id.err, id.pos, stack, root)
      ELSE IF SmallVal(id.val) = TAG_TYPE_END
      THEN finish_tag(CompoundTag(self.m_tag), id.pos, stack, root)
      ELSE The({
           IF name_r.err # "none" THEN Step(name_r.err, name_r.pos, stack, root)
           ELSE LET named == [stack EXCEPT ![top].m_next_tag_name = name_r.val]
                IN  IF SmallVal(id.val) \in {TAG_TYPE_COMPOUND, TAG_TYPE_LIST}
                    THEN The({IF child.err # "none"
                              THEN Step(child.err, child.pos, named, root)
                              ELSE Began(Step("none", child.pos,
                                              Append(named, child.val), root)) :
                                child \in {new_read_state_for(name_r.pos,
                                                              SmallVal(id.val))}})
                    ELSE The({IF tag_r.err # "none"
                              THEN Step(tag_r.err, tag_r.pos, named, root)
                              ELSE Step("none", tag_r.pos,
                                        [named EXCEPT ![top].m_tag =
                                           map_insert(self.m_tag, name_r.val,
                                                      tag_r.val)],
                                        root) :
                                tag_r \in {read_simple_tag(name_r.pos, SmallVal(id.val),
                                                           alloc_ok)}}) :
             name_r \in {read_string(id.pos)}}) :
        id \in {read_big_endian_unsigned_int(pos, 1)}})

\* the "read everything in one pass" loop of ReadListTagState::continue_read:
\* `left` iterations remain, self is the list frame
RECURSIVE read_all_in_one_pass(_, _, _, _)
read_all_in_one_pass(pos, left, list, alloc_ok) ==
  IF IsZero(left) THEN [err |-> "none", pos |-> pos, self |-> list]
  ELSE The({IF tag_r.err # "none"
            THEN [err |-> tag_r.err, pos |-> tag_r.pos, self |-> list]
            ELSE IF ~dynamic_cast_ok(list.T, tag_r.val)
            THEN [err |-> "logic_error", pos |-> tag_r.pos, self |-> list]
            ELSE read_all_in_one_pass(tag_r.pos, Dec(left),
                                      ReadListTagState_add_tag(list, tag_r.val),
                                      alloc_ok) :
              tag_r \in {read_simple_tag(pos, list.m_type_id, alloc_ok)}})

\* (mutant) a List of containers hands itself over when one element is
\* still to come
ReadListTagState_continue_read_delivers_early(pos, stack, root, alloc_ok) ==
  LET top == Len(stack)
      self == stack[top]
  IN  IF self.m_type_id \in {TAG_TYPE_COMPOUND, TAG_TYPE_LIST}
      THEN IF IsZero(self.m_remaining_reads) \/ IsZero(Dec(self.m_remaining_reads))
           THEN finish_tag(ListTag(self.T, self.m_list_tag), pos, stack, root)
           ELSE The({IF child.err # "none"
                     THEN Step(child.err, child.pos, stack, root)
                     ELSE Began(Step("none", child.pos,
                                     Append([stack EXCEPT
                                               ![top].m_remaining_reads = Dec(@)],
                                            child.val),
                                     root)) :
                       child \in {new_read_state_for(pos, self.m_type_id)}})
      ELSE The({IF pass.err # "none" THEN Step(pass.err, pass.pos, stack, root)
                ELSE finish_tag(ListTag(pass.self.T, pass.self.m_list_tag), pass.pos,
                                [stack EXCEPT ![top] = pass.self], root) :
                  pass \in {read_all_in_one_pass(pos, self.m_remaining_reads, self,
                                                 alloc_ok)}})

\* (mutant) a List of a simple kind reads one element per activation and
\* stays on the stack until none remain
ReadListTagState_continue_read_one_at_a_time(pos, stack, root, alloc_ok) ==
  LET top == Len(stack)
      self == stack[top]
  IN  IF IsZero(self.m_remaining_reads)
      THEN finish_tag(ListTag(self.T, self.m_list_tag), pos, stack, root)
      ELSE IF self.m_type_id \in {TAG_TYPE_COMPOUND, TAG_TYPE_LIST}
      THEN The({IF child.err # "none"
                THEN Step(child.err, child.pos, stack, root)
                ELSE Began(Step("none", child.pos,
                                Append([stack EXCEPT
                                          ![top].m_remaining_reads = Dec(@)],
                                       child.val),
                                root)) :
                  child \in {new_read_state_for(pos, self.m_type_id)}})
      ELSE The({IF tag_r.err # "none" THEN Step(tag_r.err, tag_r.pos, stack, root)
                ELSE IF ~dynamic_cast_ok(self.T, tag_r.val)
                THEN Step("logic_error", tag_r.pos, stack, root)
                ELSE Step("none", tag_r.pos,
                          [stack EXCEPT ![top] =
                             [ReadListTagState_add_tag(self, tag_r.val)
                                EXCEPT !.m_remaining_reads = Dec(@)]],
                          root) :
                  tag_r \in {read_simple_tag(pos, self.m_type_id, alloc_ok)}})

\* ReadListTagState<T>::continue_read of the top frame
ReadListTagState_continue_read(pos, stack, root, alloc_ok) ==
  LET top == Len(stack)
      self == stack[top]
  IN  IF self.m_type_id \in {TAG_TYPE_COMPOUND, TAG_TYPE_LIST}
      THEN IF IsZero(self.m_remaining_reads)
           THEN finish_tag(ListTag(self.T, self.m_list_tag), pos, stack, root)
           ELSE The({IF child.err # "none"
                     THEN Step(child.err, child.pos, stack, root)
                     ELSE Began(Step("none", child.pos,
                                     Append([stack EXCEPT
                                               ![top].m_remaining_reads = Dec(@)],
                                            child.val),
                                     root)) :
                       child \in {new_read_state_for(pos, self.m_type_id)}})
      ELSE The({IF pass.err # "none" THEN Step(pass.err, pass.pos, stack, root)
                ELSE finish_tag(ListTag(pass.self.T, pass.self.m_list_tag), pass.pos,
                                [stack EXCEPT ![top] = pass.self], root) :
                  pass \in {read_all_in_one_pass(pos, self.m_remaining_reads, self,
                                                 alloc_ok)}})

\* ------------------------------------------------------------ the inputs
\* Byte strings handed to read_nbt: documents in the wire format, every
\* prefix of each, and short unstructured strings.
RECURSIVE Concat(_)
Concat(ss) == IF Len(ss) = 0 THEN <<>> ELSE Head(ss) \o Concat(Tail(ss))

\* encoded names: "" and "x"
NameBytes == {<<0, 0>>, <<0, 1, 120>>}

\* simple tags used wherever a document holds several tags: Byte -1, String "x"
FewLeaves == {[k |-> TAG_TYPE_BYTE, p |-> <<255>>],
              [k |-> TAG_TYPE_STRING, p |-> <<0, 1, 120>>]}

\* one tag of every simple kind, the kind ids no tag has, and length fields
\* no input can honour
AllLeaves ==
  {[k |-> TAG_TYPE_BYTE, p |-> <<255>>],
   [k |-> TAG_TYPE_BYTE, p |-> <<5>>],
   [k |-> TAG_TYPE_SHORT, p |-> <<127, 255>>],
   [k |-> TAG_TYPE_INT, p |-> <<0, 0, 0, 42>>],
   [k |-> TAG_TYPE_INT, p |-> <<255, 255, 255, 254>>],
   [k |-> TAG_TYPE_LONG, p |-> <<255, 0, 0, 0, 0, 0, 0, 0>>],
   [k |-> TAG_TYPE_FLOAT, p |-> <<63, 0, 0, 1>>],
   [k |-> TAG_TYPE_DOUBLE, p |-> <<63, 0, 0, 0, 0, 0, 0, 1>>],
   [k |-> TAG_TYPE_BYTE_ARRAY, p |-> <<0, 0, 0, 2, 7, 255>>],
   [k |-> TAG_TYPE_BYTE_ARRAY, p |-> <<255, 255, 255, 255, 7>>],
   [k |-> TAG_TYPE_STRING, p |-> <<0, 1, 120>>],
   [k |-> TAG_TYPE_INT_ARRAY, p |-> <<0, 0, 0, 1, 255, 255, 255, 255>>],
   [k |-> TAG_TYPE_INT_ARRAY, p |-> <<1, 0, 0, 0, 0, 0, 0, 9>>],
   [k |-> 12, p |-> <<>>],
   [k |-> 255, p |-> <<7>>]}

RECURSIVE Bodies(_), Lists(_), ElemSeqs(_, _), FewPayloads(_, _)

\* payloads of a container of kind k holding at most b tags
FewPayloads(k, b) ==
  IF k = TAG_TYPE_COMPOUND THEN {body \o <<0>> : body \in Bodies(b)}
  ELSE Lists(b)

\* the entries of a Compound, at most b tags in all, without the End byte
Bodies(b) ==
  {<<>>} \cup
  (IF b = 0 THEN {}
   ELSE {<<e.k>> \o nm \o e.p \o rest :
           e \in FewLeaves, nm \in NameBytes, rest \in Bodies(b - 1)}
        \cup UNION {UNION {{<<k>> \o nm \o p \o rest :
                              nm \in NameBytes, p \in FewPayloads(k, n - 1),
                              rest \in Bodies(b - n)} :
                           n \in 1..b} :
                    k \in {TAG_TYPE_LIST, TAG_TYPE_COMPOUND}})

\* the elements of a List of containers of kind ek, at most b tags in all
ElemSeqs(ek, b) ==
  {[n |-> 0, bytes |-> <<>>]} \cup
  (IF b = 0 THEN {}
   ELSE UNION {{[n |-> r.n + 1, bytes |-> p \o r.bytes] :
                  p \in FewPayloads(ek, m - 1), r \in ElemSeqs(ek, b - m)} :
               m \in 1..b})

\* List payloads holding at most b tags
Lists(b) ==
  {<<e.k, 0, 0, 0, n>> \o Concat([i \in 1..n |-> e.p]) : e \in FewLeaves, n \in 0..b}
  \cup UNION {{<<ek, 0, 0, 0, r.n>> \o r.bytes : r \in ElemSeqs(ek, b)} :
              ek \in {TAG_TYPE_LIST, TAG_TYPE_COMPOUND}}

\* documents of the few leaf kinds: a container root named ""
FewDocs ==
  UNION {{<<k, 0, 0>> \o p : p \in FewPayloads(k, MaxTags)} :
         k \in {TAG_TYPE_LIST, TAG_TYPE_COMPOUND}}

\* a leaf of any kind under a chain of d containers, as an entry named nm of
\* a Compound (nm an encoded name) or as the element of a one-element List
RECURSIVE ChainPayloads(_)
ChainPayloads(d) ==
  IF d = 0 THEN AllLeaves
  ELSE LET inner == ChainPayloads(d - 1)
       IN  {[k |-> TAG_TYPE_COMPOUND, p |-> <<c.k>> \o nm \o c.p \o <<0>>] :
              c \in inner, nm \in NameBytes}
           \cup {[k |-> TAG_TYPE_LIST, p |-> <<c.k, 0, 0, 0, 1>> \o c.p] : c \in inner}
           \cup {[k |-> TAG_TYPE_LIST, p |-> <<c.k, 0, 0, 0, 0>>] : c \in inner}
           \cup {[k |-> TAG_TYPE_LIST, p |-> <<c.k, 255, 255, 255, 255>> \o c.p] :
                   c \in inner}
           \cup {[k |-> TAG_TYPE_LIST, p |-> <<TAG_TYPE_END, 0, 0, 0, n>>] : n \in 0..1}

\* documents with a leaf of any kind: any root kind, both root names
ChainDocs ==
  UNION {{<<c.k>> \o nm \o c.p : c \in ChainPayloads(d), nm \in NameBytes} :
         d \in 0..MaxChain}
  \cup {<<TAG_TYPE_END>> \o nm : nm \in NameBytes}

RawBytes == {0, 1, 9, 10, 12, 255}
RECURSIVE RawStrings(_)
RawStrings(n) ==
  IF n = 0 THEN {<<>>}
  ELSE LET shorter == RawStrings(n - 1)
       IN  shorter \cup {Append(r, x) : r \in shorter, x \in RawBytes}

Prefixes(docs) == UNION {{SubSeq(d, 1, n) : n \in 0..Len(d)} : d \in docs}

\* what may follow a document in the caller's bytes: an End byte, a byte
\* that is no kind id, another document
Trailers == {<<0>>, <<255>>, <<10, 0, 0, 0>>}

\* documents named "" with a leaf under one or two containers, followed by
\* more bytes
FollowedDocs ==
  {<<c.k, 0, 0>> \o c.p \o t : c \in ChainPayloads(1) \cup ChainPayloads(2),
                              t \in Trailers}

Inputs ==
  Prefixes(FewDocs \cup ChainDocs) \cup RawStrings(MaxRawLen) \cup FollowedDocs

\* -------------------------------------------------------------- read_nbt
NoResult == [name |-> <<>>, tag |-> NullTag, returned |-> FALSE]
RootTag(name, tag) == [name |-> name, tag |-> tag]

NoStream == [data |-> <<>>, gpos |-> 0, eofbit |-> FALSE, failbit |-> FALSE,
             badbit |-> FALSE]
NoCall == [op |-> "none"]

Init ==
  /\ m_istream = NoStream
  /\ call = NoCall
  /\ m_data = <<>>
  /\ m_position = 0
  /\ pc = "new"
  /\ tag_type_id = 0
  /\ root_tag = RootTag(<<>>, NullTag)
  /\ io_state = <<>>
  /\ returned = NoResult
  /\ err = "none"
  /\ open = 0
  /\ activations = 0

\* MemoryInputStream(data, size): the caller wraps its bytes
MemoryInputStream ==
  /\ pc = "new"
  /\ m_data' \in Inputs
  /\ m_position' = 0
  /\ pc' = "start"
  /\ UNCHANGED <<tag_type_id, root_tag, io_state, returned, err, open, activations>>
  /\ UNCHANGED codec_vars

\* (mutant) read_nbt catches the exception and returns what it has built
Throw_returns_partial_tree(e, pos) ==
  /\ pc' = "error"
  /\ err' = e
  /\ m_position' = pos
  /\ io_state' = <<>>
  /\ root_tag' = root_tag
  /\ open' = 0
  /\ returned' = [name |-> root_tag.name, tag |-> root_tag.tag, returned |-> TRUE]
  /\ UNCHANGED <<m_data, tag_type_id>>

\* an exception leaves read_nbt: its locals are destroyed, nothing is returned
Throw(e, pos) ==
  /\ pc' = "error"
  /\ err' = e
  /\ m_position' = pos
  /\ io_state' = <<>>
  /\ root_tag' = RootTag(<<>>, NullTag)
  /\ open' = 0
  /\ UNCHANGED <<m_data, tag_type_id, returned>>

\* an activation of the top frame ended as st says
Activated(st) ==
  /\ activations' = activations + 1
  /\ IF st.err # "none" THEN Throw(st.err, st.pos)
     ELSE
       /\ m_position' = st.pos
       /\ io_state' = st.io_state
       /\ root_tag' = st.root_tag
       /\ open' = open + st.began - st.delivered
       /\ UNCHANGED <<m_data, pc, tag_type_id, returned, err>>

\* (mutant) read_nbt returns an empty RootTag as soon as it reads the root
\* kind End, without reading a name
read_nbt_end_root_returns_early ==
  /\ pc = "start"
  /\ UNCHANGED activations
  /\ UNCHANGED codec_vars
  /\ \E id \in {read_big_endian_unsigned_int(m_position, 1)} :
         IF id.err # "none" THEN Throw(id.err, id.pos)
         ELSE IF SmallVal(id.val) = TAG_TYPE_END
         THEN /\ pc' = "done"
              /\ tag_type_id' = TAG_TYPE_END
              /\ returned' = [name |-> <<>>, tag |-> NullTag, returned |-> TRUE]
              /\ m_position' = id.pos
              /\ UNCHANGED <<m_data, root_tag, io_state, err, open>>
         ELSE \E name_r \in {read_string(id.pos)} :
                  IF name_r.err # "none"
                  THEN Throw(name_r.err, name_r.pos)
                  ELSE IF SmallVal(id.val) \in {TAG_TYPE_LIST, TAG_TYPE_COMPOUND}
                  THEN \E child \in {new_read_state_for(name_r.pos, SmallVal(id.val))} :
                           IF child.err # "none" THEN Throw(child.err, child.pos)
                           ELSE /\ pc' = "loop"
                                /\ tag_type_id' = SmallVal(id.val)
                                /\ root_tag' = RootTag(name_r.val, NullTag)
                                /\ io_state' = <<ReadRootTagState, child.val>>
                                /\ m_position' = child.pos
                                /\ open' = 1
                                /\ UNCHANGED <<m_data, returned, err>>
                  ELSE /\ pc' = "done"
                       /\ tag_type_id' = SmallVal(id.val)
                       /\ root_tag' = RootTag(name_r.val, NullTag)
                       /\ returned' = [name |-> name_r.val, tag |-> NullTag, returned |-> TRUE]
                       /\ m_position' = name_r.pos
                       /\ UNCHANGED <<m_data, io_state, err, open>>

\* read_nbt up to the call of process_read_state (container root) or to its
\* return (any other root kind)
read_nbt ==
  /\ pc = "start"
  /\ UNCHANGED activations
  /\ UNCHANGED codec_vars
  /\ \E id \in {read_big_endian_unsigned_int(m_position, 1)} :
         IF id.err # "none" THEN Throw(id.err, id.pos)
         ELSE \E name_r \in {read_string(id.pos)} :
                  IF name_r.err # "none"
                  THEN Throw(name_r.err, name_r.pos)
                  ELSE IF SmallVal(id.val) \in {TAG_TYPE_LIST, TAG_TYPE_COMPOUND}
                  THEN \E child \in {new_read_state_for(name_r.pos, SmallVal(id.val))} :
                           IF child.err # "none" THEN Throw(child.err, child.pos)
                           ELSE /\ pc' = "loop"
                                /\ tag_type_id' = SmallVal(id.val)
                                /\ root_tag' = RootTag(name_r.val, NullTag)
                                /\ io_state' = <<ReadRootTagState, child.val>>
                                /\ m_position' = child.pos
                                /\ open' = 1
                                /\ UNCHANGED <<m_data, returned, err>>
                  ELSE /\ pc' = "done"
                       /\ tag_type_id' = SmallVal(id.val)
                       /\ root_tag' = RootTag(name_r.val, NullTag)
                       /\ returned' = [name |-> name_r.val, tag |-> NullTag, returned |-> TRUE]
                       /\ m_position' = name_r.pos
                       /\ UNCHANGED <<m_data, io_state, err, open>>

\* process_read_state: one turn of the loop with a Root frame on top
continue_read_root ==
  /\ pc = "loop"
  /\ io_state # <<>>
  /\ io_state[Len(io_state)].cls = "Root"
  /\ UNCHANGED codec_vars
  /\ Activated(ReadRootTagState_continue_read(m_position, io_state, root_tag))

\* process_read_state: one turn of the loop with a Compound frame on top
continue_read_compound ==
  /\ pc = "loop"
  /\ io_state # <<>>
  /\ io_state[Len(io_state)].cls = "Compound"
  /\ UNCHANGED codec_vars
  /\ \E alloc_ok \in BOOLEAN :
       Activated(ReadCompoundTagState_continue_read(m_position, io_state, root_tag, alloc_ok))

\* process_read_state: one turn of the loop with a List frame on top
continue_read_list ==
  /\ pc = "loop"
  /\ io_state # <<>>
  /\ io_state[Len(io_state)].cls = "List"
  /\ UNCHANGED codec_vars
  /\ \E alloc_ok \in BOOLEAN :
       Activated(ReadListTagState_continue_read(m_position, io_state, root_tag, alloc_ok))

\* process_read_state finds the stack empty and read_nbt returns root_tag
read_nbt_return ==
  /\ pc = "loop"
  /\ io_state = <<>>
  /\ pc' = "done"
  /\ returned' = [name |-> root_tag.name, tag |-> root_tag.tag, returned |-> TRUE]
  /\ UNCHANGED <<m_data, m_position, tag_type_id, root_tag, io_state, err, open,
                 activations>>
  /\ UNCHANGED codec_vars

Next ==
  \/ MemoryInputStream
  \/ read_nbt
  \/ continue_read_root
  \/ continue_read_compound
  \/ continue_read_list
  \/ read_nbt_return

Spec == Init /\ [][Next]_vars

\* ------------------------------------ the codec operations, called directly
\* The stream classes and the codec functions can be used without read_nbt;
\* here each is called on its own, over and over, on one stream.

\* a < b on digit strings of the same length
RECURSIVE DigitsLess(_, _)
DigitsLess(a, b) ==
  IF Len(a) = 0 THEN FALSE
  ELSE IF Head(a) # Head(b) THEN Head(a) < Head(b)
  ELSE DigitsLess(Tail(a), Tail(b))

\* std::basic_ios::fail(): failbit or badbit is set
basic_ios_fail(is) == is.failbit \/ is.badbit

\* std::basic_ios::operator!(): the same as fail()
basic_ios_not(is) == basic_ios_fail(is)

\* std::istream::read(s, n) as m_istream.read is called: a stream that is not
\* good() gets failbit and extracts nothing; a source that fails other than
\* by running out of data (source_ok is FALSE) gives badbit; running out of
\* data before n characters gives eofbit and failbit
istream_read(is, n, source_ok) ==
  IF is.eofbit \/ is.failbit \/ is.badbit THEN [is EXCEPT !.failbit = TRUE]
  ELSE IF n > 0 /\ ~source_ok THEN [is EXCEPT !.badbit = TRUE]
  ELSE IF Len(is.data) - is.gpos >= n THEN [is EXCEPT !.gpos = @ + n]
  ELSE [is EXCEPT !.gpos = Len(is.data), !.eofbit = TRUE, !.failbit = TRUE]

\* IStreamInputStream::read(data, size): the exception raised ("none" if it
\* returns) and the stream afterwards
IStreamInputStream_read(is, size, source_ok) ==
  The({[err |-> IF basic_ios_not(after)
                THEN IF basic_ios_fail(after)
                     THEN "IoError: I/O error while reading NBT stream"
                     ELSE "PrematureEof"
                ELSE "none",
        is |-> after] :
         after \in {istream_read(is, size, source_ok)}})

\* the results a build can give twos_complement_decode<size, RT, IT>(raw):
\* where the evaluation overflows a signed type the behaviour is undefined,
\* and the call gives the wrapped value or no value at all
twos_complement_decode_results(size, rt_signed, it_signed, raw) ==
  IF twos_complement_overflows(size, rt_signed, it_signed, raw)
  THEN {[defined |-> TRUE,
         value |-> twos_complement_decode(size, rt_signed, it_signed, raw)],
        [defined |-> FALSE, value |-> IntVal(FALSE, Zeros(size))]}
  ELSE {[defined |-> TRUE,
         value |-> twos_complement_decode(size, rt_signed, it_signed, raw)]}

\* the instantiations of twos_complement_decode in reader.cxx: those of
\* read_simple_payload (RT signed, IT unsigned) and that of
\* read_int_array_tag (RT uint32_t, IT int32_t)
Instantiations ==
  {[size |-> w, rt_signed |-> TRUE, it_signed |-> FALSE] : w \in {1, 2, 4, 8}}
  \cup {[size |-> 4, rt_signed |-> FALSE, it_signed |-> TRUE]}

\* most bytes a direct read asks for, short of the sizes no stream can serve
MaxRead == 3

\* the sizes asked of read: 0..MaxRead, 2^32-1 and 2^64-1
ReadSizes ==
  {SizeT(<<n>>) : n \in 0..MaxRead}
  \cup {SizeT(<<255, 255, 255, 255>>), <<255, 255, 255, 255, 255, 255, 255, 255>>}

\* bit patterns of `size` bytes: the ends of both halves of the range and
\* their neighbours
BitPatterns(size) ==
  {<<b>> \o rest : b \in {0, 1, 127, 128, 129, 255},
                   rest \in {Zeros(size - 1),
                             [i \in 1..(size - 1) |-> 255],
                             [i \in 1..(size - 1) |-> IF i = size - 1 THEN 1 ELSE 0]}}

\* the bytes the streams hold: the payload of a tag of every simple kind,
\* whole and cut short
CodecInputs == Prefixes({leaf.p : leaf \in AllLeaves})

\* the kind ids handed to read_simple_tag: 0..11 and ids no tag has
CodecKinds == (TAG_TYPE_END..TAG_TYPE_INT_ARRAY) \cup {12, 255}

CodecInit ==
  /\ m_data \in CodecInputs
  /\ m_istream = [NoStream EXCEPT !.data = m_data]
  /\ call = NoCall
  /\ m_position = 0
  /\ pc = "codec"
  /\ tag_type_id = 0
  /\ root_tag = RootTag(<<>>, NullTag)
  /\ io_state = <<>>
  /\ returned = NoResult
  /\ err = "none"
  /\ open = 0
  /\ activations = 0

engine_vars == <<m_data, pc, tag_type_id, root_tag, io_state, returned, err, open,
                 activations>>

\* the smallest size a read of the MemoryInputStream has failed with so far
\* (history), <<>> if none has
min_failed == IF "min_failed" \in DOMAIN call THEN call.min_failed ELSE <<>>

\* s.read(data, size) on the MemoryInputStream
call_MemoryInputStream_read ==
  /\ pc = "codec"
  /\ \E size \in ReadSizes :
       \E r \in {MemoryInputStream_read(m_position, size)} :
         /\ m_position' = r.pos
         /\ call' = [op |-> "MemoryInputStream::read", size |-> size, err |-> r.err,
                     val |-> r.val, before |-> m_position,
                     min_failed |->
                       IF r.err = "none" THEN min_failed
                       ELSE IF min_failed = <<>> \/ DigitsLess(size, min_failed)
                       THEN size ELSE min_failed]
  /\ UNCHANGED <<engine_vars, m_istream>>

\* read_simple_tag(s, tag_type) on the MemoryInputStream
call_read_simple_tag ==
  /\ pc = "codec"
  /\ \E tag_type \in CodecKinds, alloc_ok \in BOOLEAN :
       \E r \in {read_simple_tag(m_position, tag_type, alloc_ok)} :
         /\ m_position' = r.pos
         /\ call' = [op |-> "read_simple_tag", tag_type |-> tag_type, err |-> r.err,
                     val |-> r.val, before |-> m_position, min_failed |-> min_failed]
  /\ UNCHANGED <<engine_vars, m_istream>>

\* twos_complement_decode<size, RT, IT>(raw)
call_twos_complement_decode ==
  /\ pc = "codec"
  /\ \E inst \in Instantiations :
       \E raw \in BitPatterns(inst.size) :
         \E r \in twos_complement_decode_results(inst.size, inst.rt_signed,
                                                 inst.it_signed, raw) :
           call' = [op |-> "twos_complement_decode", inst |-> inst, raw |-> raw,
                    defined |-> r.defined, value |-> r.value,
                    min_failed |-> min_failed]
  /\ UNCHANGED <<engine_vars, m_position, m_istream>>

\* s.read(data, size) on the IStreamInputStream
call_IStreamInputStream_read ==
  /\ pc = "codec"
  /\ \E size \in 0..MaxRead, source_ok \in BOOLEAN :
       \E r \in {IStreamInputStream_read(m_istream, size, source_ok)} :
         /\ m_istream' = r.is
         /\ call' = [op |-> "IStreamInputStream::read", size |-> size, err |-> r.err,
                     before |-> m_istream, source_ok |-> source_ok,
                     min_failed |-> min_failed]
  /\ UNCHANGED <<engine_vars, m_position>>

\* a caller of the MemoryInputStream and of the simple-tag decoder over it
MemoryNext ==
  \/ call_MemoryInputStream_read
  \/ call_read_simple_tag

MemorySpec == CodecInit /\ [][MemoryNext]_vars

\* a caller of the IStreamInputStream
IStreamNext == call_IStreamInputStream_read

IStreamSpec == CodecInit /\ [][IStreamNext]_vars

\* a caller of the sign decoding
DecodeNext == call_twos_complement_decode

DecodeSpec == CodecInit /\ [][DecodeNext]_vars

\* ------------------------------------------- the wire format, read directly
\* A recursive-descent reading of m_data by the grammar of the wire format
\* (Stream := kind name Payload(kind), ...), the yardstick the engine's
\* result is compared with.  st is "ok", "short" (the bytes ran out before
\* the grammar was satisfied and nothing read so far contradicts it) or
\* "bad"; dup tells whether some Compound repeated a name; where a name
\* repeats, last_wins chooses the occurrence that the mapping keeps.
WOk(pos, val, dup) == [st |-> "ok", pos |-> pos, val |-> val, dup |-> dup]
WNot(st) == [st |-> st, pos |-> 0, val |-> NullTag, dup |-> FALSE]

\* the signed integer a big-endian two's-complement bit pattern denotes
WireInt(raw) ==
  IF SignBitSet(raw) THEN IntVal(TRUE, Inc(Compl(raw))) ELSE IntVal(FALSE, raw)

\* n raw bytes at pos
WireBytes(pos, n) ==
  IF pos + n > Len(m_data) THEN WNot("short")
  ELSE WOk(pos + n, SubSeq(m_data, pos + 1, pos + n), FALSE)

\* a length or count field: i32, not negative, below 2^24
WireLength(pos) ==
  LET r == WireBytes(pos, 4)
  IN  IF r.st # "ok" THEN r
      ELSE IF SignBitSet(r.val) \/ ~Fits(r.val) THEN WNot("bad")
      ELSE WOk(r.pos, SmallVal(r.val), FALSE)

\* ByteString := length:u16 bytes[length]
WireByteString(pos) ==
  LET r == WireBytes(pos, 2)
  IN  IF r.st # "ok" THEN r ELSE WireBytes(r.pos, Val(r.val))

WireFixedSize(kind) ==
  CASE kind = TAG_TYPE_BYTE -> 1
    [] kind = TAG_TYPE_SHORT -> 2
    [] kind = TAG_TYPE_INT -> 4
    [] kind = TAG_TYPE_LONG -> 8
    [] kind = TAG_TYPE_FLOAT -> 4
    [] kind = TAG_TYPE_DOUBLE -> 8

RECURSIVE WirePayload(_, _, _), WireEntries(_, _, _, _), WireElems(_, _, _, _, _, _),
          WireInts(_, _, _)

\* (i32)[n] of an IntArray
WireInts(pos, n, values) ==
  IF n = 0 THEN WOk(pos, Tag(TAG_TYPE_INT_ARRAY, values), FALSE)
  ELSE LET r == WireBytes(pos, 4)
       IN  IF r.st # "ok" THEN r
           ELSE WireInts(r.pos, n - 1, Append(values, WireInt(r.val)))

\* Payload(ek) x n of a List
WireElems(pos, ek, n, values, dup, last_wins) ==
  IF n = 0 THEN WOk(pos, ListTag(ek, values), dup)
  ELSE LET r == WirePayload(pos, ek, last_wins)
       IN  IF r.st # "ok" THEN r
           ELSE WireElems(r.pos, ek, n - 1, Append(values, r.val), dup \/ r.dup,
                          last_wins)

\* { kind name Payload(kind) }* kind=0 of a Compound
WireEntries(pos, values, dup, last_wins) ==
  LET kind_r == WireBytes(pos, 1)
  IN  IF kind_r.st # "ok" THEN kind_r
      ELSE IF kind_r.val[1] = TAG_TYPE_END THEN WOk(kind_r.pos, CompoundTag(values), dup)
      ELSE IF kind_r.val[1] > TAG_TYPE_INT_ARRAY THEN WNot("bad")
      ELSE LET name_r == WireByteString(kind_r.pos)
           IN  IF name_r.st # "ok" THEN name_r
               ELSE LET r == WirePayload(name_r.pos, kind_r.val[1], last_wins)
                        seen == name_r.val \in DOMAIN values
                        kept == IF seen /\ ~last_wins THEN values
                                ELSE [n \in DOMAIN values \cup {name_r.val} |->
                                        IF n = name_r.val THEN r.val ELSE values[n]]
                    IN  IF r.st # "ok" THEN r
                        ELSE WireEntries(r.pos, kept, dup \/ r.dup \/ seen, last_wins)

WirePayload(pos, kind, last_wins) ==
  CASE kind \in {TAG_TYPE_BYTE, TAG_TYPE_SHORT, TAG_TYPE_INT, TAG_TYPE_LONG} ->
         LET r == WireBytes(pos, WireFixedSize(kind))
         IN  IF r.st # "ok" THEN r ELSE WOk(r.pos, Tag(kind, WireInt(r.val)), FALSE)
    [] kind \in {TAG_TYPE_FLOAT, TAG_TYPE_DOUBLE} ->
         LET r == WireBytes(pos, WireFixedSize(kind))
         IN  IF r.st # "ok" THEN r ELSE WOk(r.pos, Tag(kind, r.val), FALSE)
    [] kind = TAG_TYPE_BYTE_ARRAY ->
         LET len_r == WireLength(pos)
         IN  IF len_r.st # "ok" THEN len_r
             ELSE LET r == WireBytes(len_r.pos, len_r.val)
                  IN  IF r.st # "ok" THEN r
                      ELSE WOk(r.pos, Tag(TAG_TYPE_BYTE_ARRAY, r.val), FALSE)
    [] kind = TAG_TYPE_STRING ->
         LET r == WireByteString(pos)
         IN  IF r.st # "ok" THEN r ELSE WOk(r.pos, Tag(TAG_TYPE_STRING, r.val), FALSE)
    [] kind = TAG_TYPE_INT_ARRAY ->
         LET len_r == WireLength(pos)
         IN  IF len_r.st # "ok" THEN len_r ELSE WireInts(len_r.pos, len_r.val, <<>>)
    [] kind = TAG_TYPE_LIST ->
         LET ek_r == WireBytes(pos, 1)
         IN  IF ek_r.st # "ok" THEN ek_r
             ELSE IF ek_r.val[1] > TAG_TYPE_INT_ARRAY THEN WNot("bad")
             ELSE LET len_r == WireLength(ek_r.pos)
                  IN  IF len_r.st # "ok" THEN len_r
                      ELSE IF ek_r.val[1] = TAG_TYPE_END
                      THEN IF len_r.val = 0 THEN WOk(len_r.pos, ListTag(TAG_TYPE_END, <<>>), FALSE)
                           ELSE WNot("bad")
                      ELSE WireElems(len_r.pos, ek_r.val[1], len_r.val, <<>>, FALSE, last_wins)
    [] kind = TAG_TYPE_COMPOUND -> WireEntries(pos, <<>>, FALSE, last_wins)
    [] OTHER -> WNot("bad")

\* Stream := kind:u8 name:ByteString Payload(kind); val is the RootTag
WireStream(last_wins) ==
  LET kind_r == WireBytes(0, 1)
  IN  IF kind_r.st # "ok" THEN kind_r
      ELSE IF kind_r.val[1] \notin TAG_TYPE_BYTE..TAG_TYPE_INT_ARRAY THEN WNot("bad")
      ELSE LET name_r == WireByteString(kind_r.pos)
           IN  IF name_r.st # "ok" THEN name_r
               ELSE LET r == WirePayload(name_r.pos, kind_r.val[1], last_wins)
                    IN  IF r.st # "ok" THEN r
                        ELSE WOk(r.pos, RootTag(name_r.val, r.val), r.dup)

\* m_data is exactly one valid encoding, Compound keys unique
ValidEncoding ==
  LET w == WireStream(FALSE) IN w.st = "ok" /\ w.pos = Len(m_data) /\ ~w.dup

\* m_data is a valid encoding cut short
TruncatedEncoding == WireStream(FALSE).st = "short"

\* ------------------------------------------------------ the pretty printer
\* PrettyPrinter::print_tag of src/utility.cxx, the file the build compiles:
\* the exception it ends with, "none" if it returns.  print_compound_tag
\* prints every entry with print_tag.
RECURSIVE print_tag(_)
print_tag(tag) ==
  IF tag.kind \in TAG_TYPE_BYTE..TAG_TYPE_DOUBLE THEN "none"
  ELSE IF tag.kind = TAG_TYPE_STRING THEN "none"
  ELSE IF tag.kind = TAG_TYPE_COMPOUND
  THEN IF \A n \in DOMAIN tag.value : print_tag(tag.value[n]) = "none"
       THEN "none" ELSE "runtime_error"
  ELSE "runtime_error"

\* PrettyPrinter::print_tag and print_list_tag of src/unnamed/part_000.
\* print_list_tag tries ListTag<T> for ten classes T; ListTag<Tag>, which
\* the decoder builds for a List of Lists, and ListTag<ByteArrayTag> are not
\* among them.  print_list_specific_tag prints every element with print_tag.
RECURSIVE print_tag_part_000(_), print_list_tag(_)
print_list_tag(tag) ==
  IF tag.value.T \in {TAG_TYPE_BYTE, TAG_TYPE_SHORT, TAG_TYPE_INT, TAG_TYPE_LONG,
                      TAG_TYPE_FLOAT, TAG_TYPE_DOUBLE, TAG_TYPE_STRING,
                      TAG_TYPE_COMPOUND, TAG_TYPE_INT_ARRAY}
  THEN IF \A i \in 1..Len(tag.value.values) :
            print_tag_part_000(tag.value.values[i]) = "none"
       THEN "none" ELSE "runtime_error"
  ELSE "runtime_error"

print_tag_part_000(tag) ==
  IF tag.kind \in TAG_TYPE_BYTE..TAG_TYPE_DOUBLE THEN "none"
  ELSE IF tag.kind = TAG_TYPE_BYTE_ARRAY THEN "none"
  ELSE IF tag.kind = TAG_TYPE_LIST THEN print_list_tag(tag)
  ELSE IF tag.kind = TAG_TYPE_STRING THEN "none"
  ELSE IF tag.kind = TAG_TYPE_COMPOUND
  THEN IF \A n \in DOMAIN tag.value : print_tag_part_000(tag.value[n]) = "none"
       THEN "none" ELSE "runtime_error"
  ELSE "runtime_error"

\* the two printers the sources hold
PrinterVersions == {"src/utility.cxx", "src/unnamed/part_000"}

\* PrettyPrinter::pretty_print(root_tag): print_tag(*root_tag.tag, ...).  With
\* an empty root_tag.tag the reference is bound to a null pointer, which is
\* undefined: every dynamic_cast gives null and print_tag throws, or the
\* object is read at address zero
pretty_print_results(version, root) ==
  IF root.tag = NullTag THEN {"runtime_error", "SIGSEGV"}
  ELSE IF version = "src/utility.cxx" THEN {print_tag(root.tag)}
  ELSE {print_tag_part_000(root.tag)}

\* nbt::utility::pretty_print(os, root_tag) on the RootTag read_nbt returned
pretty_print ==
  /\ pc = "done"
  /\ returned.returned
  /\ \E version \in PrinterVersions :
       \E e \in pretty_print_results(version, returned) :
         call' = [op |-> "pretty_print", version |-> version, err |-> e]
  /\ pc' = "printed"
  /\ UNCHANGED <<m_data, m_position, tag_type_id, root_tag, io_state, returned, err,
                 open, activations, m_istream>>

\* a caller that decodes and then prints what it got
PrintNext ==
  \/ Next
  \/ pretty_print

PrintSpec == Init /\ [][PrintNext]_vars

\* ------------------------------------------------------------- the claims
Finished == pc \in {"done", "error"}
SimpleKinds == (TAG_TYPE_BYTE..TAG_TYPE_STRING) \cup {TAG_TYPE_INT_ARRAY}

\* C1: read_nbt over a valid encoding of a RootTag tree (any value kind at
\* the root or nested, Compound keys unique) returns a RootTag with the
\* encoded name and a value of the same kind, numeric value and contents.
C1_DecodeReproducesValue ==
  Finished /\ ValidEncoding =>
    /\ pc = "done"
    /\ returned.name = WireStream(FALSE).val.name
    /\ returned.tag = WireStream(FALSE).val.tag

\* C2: with a simple root kind read_nbt decodes that kind's payload without
\* pushing a frame and the returned RootTag holds the decoded value.
C2_SimpleRootDecoded ==
  pc = "done" /\ tag_type_id \in SimpleKinds =>
    /\ returned.tag.kind = tag_type_id
    /\ io_state = <<>>

\* C3: read_nbt over a proper prefix of a valid encoded stream fails with
\* PrematureEof: it returns no RootTag and raises no other error.
C3_TruncationIsPrematureEof ==
  Finished /\ TruncatedEncoding => pc = "error" /\ err = "PrematureEof"

\* what the next step will read, told from the bytes alone
\* the position after the ByteString that starts at p, -1 if it is cut short
NameEnd(p) ==
  IF p + 2 > Len(m_data) THEN -1
  ELSE LET n == 256 * m_data[p + 1] + m_data[p + 2]
       IN  IF p + 2 + n > Len(m_data) THEN -1 ELSE p + 2 + n

TopFrame == io_state[Len(io_state)]
Running == pc = "loop" /\ io_state # <<>>

\* the position of the complete List header (element kind, count) that the
\* next step reads, -1 if it reads none
NextListHeader ==
  LET h == CASE pc = "start" /\ Len(m_data) >= 1 /\ m_data[1] = TAG_TYPE_LIST ->
                  NameEnd(1)
             [] Running /\ TopFrame.cls = "Compound" /\ m_position < Len(m_data)
                  /\ m_data[m_position + 1] = TAG_TYPE_LIST ->
                  NameEnd(m_position + 1)
             [] Running /\ TopFrame.cls = "List" /\ TopFrame.m_type_id = TAG_TYPE_LIST
                  /\ ~IsZero(TopFrame.m_remaining_reads) ->
                  m_position
             [] OTHER -> -1
  IN  IF h >= 0 /\ h + 5 <= Len(m_data) THEN h ELSE -1

HeaderElemKind == m_data[NextListHeader + 1]
HeaderCount == SubSeq(m_data, NextListHeader + 2, NextListHeader + 5)

\* the next step reads a kind id outside 0..11 where a kind id is expected,
\* and the name or count that comes with it is there to be read
UnknownKindNext ==
  \/ pc = "start" /\ Len(m_data) >= 1 /\ m_data[1] > TAG_TYPE_INT_ARRAY
       /\ NameEnd(1) >= 0
  \/ Running /\ TopFrame.cls = "Compound" /\ m_position < Len(m_data)
       /\ m_data[m_position + 1] > TAG_TYPE_INT_ARRAY /\ NameEnd(m_position + 1) >= 0
  \/ NextListHeader >= 0 /\ HeaderElemKind > TAG_TYPE_INT_ARRAY

UnknownKindErrors ==
  {"IoError: Unknown tag type in NBT", "IoError: Unknown tag type in NBT for list"}

\* what is left to do: 3 for every unread byte, 1 for every frame, 2 unless
\* a Compound frame is on top (it reads a byte or fails when activated)
Variant ==
  3 * (Len(m_data) - m_position) + Len(io_state)
    + (IF io_state # <<>> /\ TopFrame.cls = "Compound" THEN 0 ELSE 2)

\* C4: read_nbt terminates on every input, returning a RootTag or raising
\* an error; the drive loop cannot cycle forever: every activation consumes
\* input, pops a frame or fails, so the loop makes fewer turns than three
\* times the input length, and every frame it finds on top can be activated.
C4_Terminates ==
  pc = "loop" =>
    /\ activations + Variant <= 3 * Len(m_data)
    /\ io_state # <<>> => TopFrame.cls \in {"Root", "Compound", "List"}

\* a decode is under way with a List frame that declared 2^32-1 elements
C4_Witness ==
  /\ Running
  /\ \E i \in 1..Len(io_state) :
       /\ io_state[i].cls = "List"
       /\ io_state[i].m_remaining_reads \in
            {<<0, 0, 0, 0, 255, 255, 255, 255>>, <<0, 0, 0, 0, 255, 255, 255, 254>>}

\* C5: a kind id outside 0..11 read where a kind id is expected (root kind,
\* Compound entry kind, List element kind) aborts the call with the
\* unknown-tag-kind IoError and no tree is returned.
C5_UnknownKindAborts ==
  [][UnknownKindNext =>
       pc' = "error" /\ err' \in UnknownKindErrors /\ ~returned'.returned]_vars

\* C6: a List declaring element kind End and count 0 decodes successfully to
\* an empty list, wherever it occurs.
C6_EmptyEndListDecodes ==
  [][NextListHeader >= 0 /\ HeaderElemKind = TAG_TYPE_END /\ IsZero(HeaderCount) =>
       /\ pc' = "loop"
       /\ io_state'[Len(io_state')].cls = "List"
       /\ io_state'[Len(io_state')].m_list_tag = <<>>
       /\ IsZero(io_state'[Len(io_state')].m_remaining_reads)]_vars

\* C7: a List declaring element kind End and a count above 0 aborts the
\* call with the invalid-list-element-kind IoError before any element is
\* read, and no tree is returned.
C7_EndListWithCountAborts ==
  [][NextListHeader >= 0 /\ HeaderElemKind = TAG_TYPE_END /\ ~IsZero(HeaderCount) =>
       /\ pc' = "error"
       /\ err' = "IoError: List tag had a tag type of TAG_End"
       /\ m_position' = NextListHeader + 5
       /\ ~returned'.returned]_vars

\* the call failed right after a List header of element kind End, count 1
C7_Witness ==
  /\ pc = "error"
  /\ err = "IoError: List tag had a tag type of TAG_End"
  /\ m_position >= 8
  /\ SubSeq(m_data, m_position - 4, m_position) = <<TAG_TYPE_END, 0, 0, 0, 1>>

\* m_data holds a container-rooted document in which a Compound repeats a name
RepeatsName == WireStream(FALSE).st = "ok" /\ WireStream(FALSE).dup

\* C8 as claimed: where a Compound's body repeats a name, the decoded
\* mapping holds one entry for it, with the value of the last occurrence.
C8_LastOccurrenceKept ==
  pc = "done" /\ tag_type_id \in {TAG_TYPE_LIST, TAG_TYPE_COMPOUND} /\ RepeatsName =>
    returned.tag = WireStream(TRUE).val.tag

\* C8 amended: where a Compound's body repeats a name, the decoded mapping
\* holds one entry for it, with the value of the first occurrence.
C8_FirstOccurrenceKept ==
  pc = "done" /\ tag_type_id \in {TAG_TYPE_LIST, TAG_TYPE_COMPOUND} /\ RepeatsName =>
    returned.tag = WireStream(FALSE).val.tag

\* a document repeating a name with different values has been decoded
C8_Witness ==
  /\ pc = "done"
  /\ RepeatsName
  /\ WireStream(TRUE).val.tag # WireStream(FALSE).val.tag
  /\ returned.returned
  /\ returned.tag.kind = TAG_TYPE_COMPOUND

\* what activating the top frame does when no allocation is refused
NextOutcome ==
  CASE TopFrame.cls = "Root" ->
         ReadRootTagState_continue_read(m_position, io_state, root_tag)
    [] TopFrame.cls = "Compound" ->
         ReadCompoundTagState_continue_read(m_position, io_state, root_tag, TRUE)
    [] TopFrame.cls = "List" ->
         ReadListTagState_continue_read(m_position, io_state, root_tag, TRUE)

\* C9: the first error raised during a decode aborts the whole call: nothing
\* is read and no frame is activated afterwards, and no RootTag, hence no
\* partially built tree, reaches the caller.
C9_FirstErrorAborts ==
  [][/\ Running /\ NextOutcome.err # "none" => pc' = "error"
     /\ pc' = "error" => err' # "none" /\ returned' = NoResult /\ io_state' = <<>>
     /\ pc = "error" => UNCHANGED vars
     /\ returned'.returned => err' = "none" /\ pc' = "done"]_vars

\* an error was raised inside a container after some of it had been decoded
C9_Witness ==
  /\ pc = "error"
  /\ err = "PrematureEof"
  /\ tag_type_id = TAG_TYPE_COMPOUND
  /\ m_position >= 8

RanOutOfData ==
  /\ call.op = "IStreamInputStream::read"
  /\ call.source_ok
  /\ ~(call.before.eofbit \/ call.before.failbit \/ call.before.badbit)
  /\ Len(call.before.data) - call.before.gpos < call.size

\* C11: IStreamInputStream::read classifies failures by cause: it raises
\* PrematureEof when the istream runs out of data before the requested count
\* with nothing else wrong, and IoError only when the source fails for
\* another reason.
C11_FailuresClassifiedByCause ==
  call.op = "IStreamInputStream::read" =>
    /\ RanOutOfData => call.err = "PrematureEof"
    /\ call.err = "IoError: I/O error while reading NBT stream" => ~RanOutOfData

\* C12: read_simple_tag called with kind End, List or Compound fails with
\* std::logic_error, with a kind id outside 0..11 it fails with IoError, and
\* in none of these cases is a byte read.
C12_ContractViolationsAreLogicErrors ==
  call.op = "read_simple_tag" =>
    /\ call.tag_type \in {TAG_TYPE_END, TAG_TYPE_LIST, TAG_TYPE_COMPOUND} =>
         call.err = "logic_error" /\ m_position = call.before
    /\ call.tag_type > TAG_TYPE_INT_ARRAY =>
         call.err = "IoError: Unknown tag type in NBT" /\ m_position = call.before

\* C13: for each width 1, 2, 4, 8 and every raw value r,
\* twos_complement_decode as read_simple_payload instantiates it returns r
\* when the sign bit is clear and r - 2^(8w) otherwise, the most negative
\* value included.
C13_DecodesEveryPattern ==
  call.op = "twos_complement_decode" /\ call.inst.rt_signed /\ ~call.inst.it_signed =>
    call.defined /\ call.value = WireInt(call.raw)

\* C15: MemoryInputStream::read(n) copies exactly the next n bytes and
\* advances the position by n, or raises PrematureEof and leaves the position
\* unchanged; the position never exceeds the buffer size; once a read of n
\* bytes has failed no later read of n bytes or more succeeds.
C15_ReadIsAllOrNothing ==
  /\ m_position <= Len(m_data)
  /\ call.op = "MemoryInputStream::read" =>
       IF call.err = "none"
       THEN /\ Fits(call.size)
            /\ m_position = call.before + SmallVal(call.size)
            /\ call.val = SubSeq(m_data, call.before + 1, m_position)
            /\ call.min_failed = <<>> \/ DigitsLess(call.size, call.min_failed)
       ELSE /\ call.err = "PrematureEof"
            /\ m_position = call.before

\* a read succeeded after an earlier, larger read had failed and after other
\* reads had moved the position
C15_Witness ==
  /\ call.op = "MemoryInputStream::read"
  /\ call.err = "none"
  /\ call.min_failed # <<>>
  /\ call.before > 0
  /\ m_position > call.before

\* C14: a Compound is decoded up to and including the first End kind byte
\* read at its own level: the delivered mapping holds exactly the entries
\* that precede that End, each under its own name (one entry for a name that
\* repeats), and is empty when the first kind byte is End.  Checked on the
\* finished decode of every Compound-rooted input against the direct reading
\* of the bytes: same tree, same name, the position just past the root's End.
C14_CompoundEndsAtFirstEnd ==
  pc = "done" /\ tag_type_id = TAG_TYPE_COMPOUND =>
    /\ WireStream(FALSE).st = "ok"
    /\ returned.name = WireStream(FALSE).val.name
    /\ returned.tag = WireStream(FALSE).val.tag
    /\ m_position = WireStream(FALSE).pos
    /\ m_data[m_position] = TAG_TYPE_END

\* the fixture: root Compound named "" with the Int entry "x" = 42, then End
C14_Witness ==
  /\ pc = "done"
  /\ m_data = <<10, 0, 0, 3, 0, 1, 120, 0, 0, 0, 42, 0>>
  /\ returned.returned
  /\ returned.name = <<>>
  /\ returned.tag =
       CompoundTag(<<120>> :> Tag(TAG_TYPE_INT, IntVal(FALSE, <<0, 0, 0, 42>>)))

\* every List inside tag holds only elements of the kind of its element class
RECURSIVE Homogeneous(_)
Homogeneous(tag) ==
  CASE tag.kind = TAG_TYPE_LIST ->
         \A i \in 1..Len(tag.value.values) :
           /\ tag.value.values[i].kind = tag.value.T
           /\ Homogeneous(tag.value.values[i])
    [] tag.kind = TAG_TYPE_COMPOUND ->
         \A n \in DOMAIN tag.value : Homogeneous(tag.value[n])
    [] OTHER -> TRUE

\* C16: every List the engine builds is homogeneous: in every state of a
\* List frame each element gathered so far is of the element kind the List's
\* header declared (a List for a List of Lists, a Compound for a List of
\* Compounds, the simple kind otherwise), and so is every List inside the
\* elements, inside the entries of the open Compounds, in the output slot and
\* in the returned tree.
C16_ListsAreHomogeneous ==
  /\ \A i \in 1..Len(io_state) :
       /\ io_state[i].cls = "List" =>
            /\ io_state[i].T = io_state[i].m_type_id
            /\ Homogeneous(ListTag(io_state[i].m_type_id, io_state[i].m_list_tag))
       /\ io_state[i].cls = "Compound" => Homogeneous(CompoundTag(io_state[i].m_tag))
  /\ Homogeneous(root_tag.tag)
  /\ Homogeneous(returned.tag)

\* a List of two Lists has been returned whose elements are Lists of different
\* element kinds
C16_Witness ==
  /\ pc = "done"
  /\ returned.tag.kind = TAG_TYPE_LIST
  /\ returned.tag.value.T = TAG_TYPE_LIST
  /\ Len(returned.tag.value.values) = 2
  /\ returned.tag.value.values[1].value.T # returned.tag.value.values[2].value.T

\* the name that a Compound frame on top reads after the kind byte at
\* m_position + 1
NextEntryName == SubSeq(m_data, m_position + 4, NameEnd(m_position + 1))

\* C17: a nested List or Compound entry of a Compound goes into the parent
\* mapping under the name read just before its child frame was pushed: the
\* push leaves that name pending in the parent frame, nothing the child or
\* its descendants read changes a frame beneath the top, and the delivery
\* inserts the child's value with the pending name as key, leaving the
\* other entries alone (an entry already held under that name stays, as
\* for any repeated name).
C17_ChildKeepsPendingName ==
  [][Running /\ pc' = "loop" =>
       /\ \A i \in 1..(Len(io_state) - 1) :
            i < Len(io_state') => io_state'[i] = io_state[i]
       /\ TopFrame.cls = "Compound" /\ Len(io_state') = Len(io_state) + 1 =>
            /\ io_state'[Len(io_state)].m_next_tag_name = NextEntryName
            /\ io_state'[Len(io_state)].m_tag = TopFrame.m_tag
       /\ /\ Len(io_state') = Len(io_state) - 1
          /\ Len(io_state) >= 2
          /\ io_state[Len(io_state) - 1].cls = "Compound"
          => LET parent == io_state[Len(io_state) - 1]
                 after == io_state'[Len(io_state')]
                 name == parent.m_next_tag_name
             IN  /\ after.m_next_tag_name = name
                 /\ DOMAIN after.m_tag = DOMAIN parent.m_tag \cup {name}
                 /\ \A n \in DOMAIN parent.m_tag : after.m_tag[n] = parent.m_tag[n]
                 /\ name \notin DOMAIN parent.m_tag =>
                      IF TopFrame.cls = "Compound"
                      THEN after.m_tag[name] = CompoundTag(TopFrame.m_tag)
                      ELSE /\ after.m_tag[name].kind = TAG_TYPE_LIST
                           /\ after.m_tag[name].value.T = TopFrame.m_type_id]_vars

\* a Compound frame has received, under the name "x", a nested Compound that
\* read the name "" for an entry of its own
C17_Witness ==
  /\ Running
  /\ TopFrame.cls = "Compound"
  /\ TopFrame.m_next_tag_name = <<120>>
  /\ <<120>> \in DOMAIN TopFrame.m_tag
  /\ TopFrame.m_tag[<<120>>].kind = TAG_TYPE_COMPOUND
  /\ <<>> \in DOMAIN TopFrame.m_tag[<<120>>].value

\* a List frame whose elements are containers is on top
ContainerListOnTop ==
  /\ Running
  /\ TopFrame.cls = "List"
  /\ TopFrame.m_type_id \in {TAG_TYPE_COMPOUND, TAG_TYPE_LIST}

\* C18: a List frame whose element kind is Compound or List starts with the
\* count of its header as remaining count and no elements; an activation
\* that finds remaining > 0 pushes exactly one empty child frame of the
\* element kind and decrements remaining by one, reading nothing beyond the
\* child's header; a finished child is appended behind the elements gathered
\* so far; only the activation that finds remaining = 0 delivers and pops
\* the frame.  The list returned for a List root is what reading its header's
\* count of elements in stream order gives.
C18_OneChildPerActivation ==
  [][/\ pc' = "loop" /\ NextListHeader >= 0
          /\ HeaderElemKind \in {TAG_TYPE_COMPOUND, TAG_TYPE_LIST} =>
          /\ io_state'[Len(io_state')].cls = "List"
          /\ io_state'[Len(io_state')].m_type_id = HeaderElemKind
          /\ io_state'[Len(io_state')].m_remaining_reads = SizeT(HeaderCount)
          /\ io_state'[Len(io_state')].m_list_tag = <<>>
     /\ ContainerListOnTop /\ pc' = "loop" =>
          IF IsZero(TopFrame.m_remaining_reads)
          THEN /\ io_state' # <<>>
               /\ Len(io_state') = Len(io_state) - 1
               /\ m_position' = m_position
               /\ io_state'[Len(io_state')].cls = "Root" =>
                    root_tag'.tag = ListTag(TopFrame.m_type_id, TopFrame.m_list_tag)
          ELSE /\ Len(io_state') = Len(io_state) + 1
               /\ io_state'[Len(io_state)] =
                    [TopFrame EXCEPT !.m_remaining_reads = Dec(@)]
               /\ io_state'[Len(io_state')].cls =
                    (IF TopFrame.m_type_id = TAG_TYPE_LIST THEN "List" ELSE "Compound")
               /\ TopFrame.m_type_id = TAG_TYPE_COMPOUND =>
                    io_state'[Len(io_state')] = ReadCompoundTagState /\ m_position' = m_position
               /\ TopFrame.m_type_id = TAG_TYPE_LIST =>
                    io_state'[Len(io_state')].m_list_tag = <<>> /\ m_position' = m_position + 5
     /\ /\ Running /\ pc' = "loop"
        /\ Len(io_state') = Len(io_state) - 1
        /\ Len(io_state) >= 2
        /\ io_state[Len(io_state) - 1].cls = "List"
        => LET parent == io_state[Len(io_state) - 1]
               after == io_state'[Len(io_state')]
           IN  /\ parent.m_type_id \in {TAG_TYPE_COMPOUND, TAG_TYPE_LIST}
               /\ after.m_remaining_reads = parent.m_remaining_reads
               /\ Len(after.m_list_tag) = Len(parent.m_list_tag) + 1
               /\ SubSeq(after.m_list_tag, 1, Len(parent.m_list_tag)) = parent.m_list_tag
               /\ after.m_list_tag[Len(after.m_list_tag)].kind = parent.m_type_id
               /\ TopFrame.cls = "Compound" =>
                    after.m_list_tag[Len(after.m_list_tag)] = CompoundTag(TopFrame.m_tag)
     /\ pc = "loop" /\ pc' = "done" /\ tag_type_id = TAG_TYPE_LIST =>
          /\ WireStream(FALSE).st = "ok"
          /\ returned'.tag = WireStream(FALSE).val.tag]_vars

\* a List of Lists that declared two elements holds the first and waits to
\* push the child for the second
C18_Witness ==
  /\ ContainerListOnTop
  /\ TopFrame.m_type_id = TAG_TYPE_LIST
  /\ Len(TopFrame.m_list_tag) = 1
  /\ TopFrame.m_remaining_reads = SizeT(<<0, 0, 0, 1>>)

\* the frame the top frame delivers to, before and after the delivery
Beneath == io_state[Len(io_state) - 1]

\* C19: decoding simple-kind children never pushes a frame.  An activation
\* of a Compound frame that reads an entry of a simple kind leaves the stack
\* as long as it was and every other frame and the output slot as they were,
\* and changes its own frame only by the pending name and by the entry added
\* to its mapping.  A List frame of a simple element kind is activated once,
\* with no element gathered yet: that activation reads all remaining
\* elements, hands the list to the frame beneath and pops the frame.  The
\* stack holds nothing but the Root frame at the bottom and a Compound or
\* List frame for each open container above it.
C19_SimpleChildrenPushNoFrame ==
  [][/\ \A i \in 1..Len(io_state) :
          /\ i = 1 => io_state[i].cls = "Root"
          /\ io_state[i].cls \in {"Root", "Compound", "List"}
          /\ io_state[i].cls = "List" /\ io_state[i].m_type_id \in SimpleKinds =>
               i = Len(io_state) /\ io_state[i].m_list_tag = <<>>
     /\ Len(io_state) = 1 + open \/ io_state = <<>>
     /\ /\ Running /\ pc' = "loop"
        /\ TopFrame.cls = "Compound"
        /\ m_data[m_position + 1] \in SimpleKinds
        => /\ Len(io_state') = Len(io_state)
           /\ \A i \in 1..(Len(io_state) - 1) : io_state'[i] = io_state[i]
           /\ root_tag' = root_tag
           /\ io_state'[Len(io_state)].cls = "Compound"
           /\ io_state'[Len(io_state)].m_next_tag_name = NextEntryName
           /\ DOMAIN io_state'[Len(io_state)].m_tag =
                DOMAIN TopFrame.m_tag \cup {NextEntryName}
           /\ \A n \in DOMAIN TopFrame.m_tag :
                io_state'[Len(io_state)].m_tag[n] = TopFrame.m_tag[n]
           /\ NextEntryName \notin DOMAIN TopFrame.m_tag =>
                io_state'[Len(io_state)].m_tag[NextEntryName].kind = m_data[m_position + 1]
     /\ /\ Running /\ pc' = "loop"
        /\ TopFrame.cls = "List"
        /\ TopFrame.m_type_id \in SimpleKinds
        => /\ Len(io_state') = Len(io_state) - 1
           /\ \A i \in 1..(Len(io_state) - 2) : io_state'[i] = io_state[i]
           /\ \E values \in
                {CASE Beneath.cls = "Root" -> root_tag'.tag.value.values
                   [] Beneath.cls = "Compound" ->
                        IF Beneath.m_next_tag_name \in DOMAIN Beneath.m_tag
                        THEN <<>>
                        ELSE io_state'[Len(io_state')].m_tag[Beneath.m_next_tag_name].value.values
                   [] Beneath.cls = "List" ->
                        io_state'[Len(io_state')].m_list_tag[Len(Beneath.m_list_tag) + 1].value.values} :
                /\ \/ Fits(TopFrame.m_remaining_reads)
                         /\ Len(values) = SmallVal(TopFrame.m_remaining_reads)
                   \/ Beneath.cls = "Compound"
                         /\ Beneath.m_next_tag_name \in DOMAIN Beneath.m_tag
                /\ \A j \in 1..Len(values) : values[j].kind = TopFrame.m_type_id]_vars

\* a List of two Strings has been read in one activation and handed to the
\* Root frame
C19_Witness ==
  /\ pc = "loop"
  /\ Len(io_state) = 1
  /\ root_tag.tag.kind = TAG_TYPE_LIST
  /\ root_tag.tag.value.T = TAG_TYPE_STRING
  /\ Len(root_tag.tag.value.values) = 2

\* C20: in a container-rooted decode the Root frame is the bottom of the
\* stack and occurs nowhere else, so a container frame on top always has a
\* frame beneath it to deliver to and finish_tag never indexes below the
\* stack.  The Root frame comes to the top only once the top-level value is
\* in the output slot; from then on nothing is pushed; its activation reads
\* nothing, empties the stack and leaves the slot alone, and the loop then
\* ends with read_nbt returning the slot.
C20_RootFrameAtBottomOnly ==
  [][/\ err # "undefined" /\ err' # "undefined"
     /\ pc = "loop" /\ io_state # <<>> =>
          /\ \A i \in 1..Len(io_state) : io_state[i].cls = "Root" <=> i = 1
          /\ TopFrame.cls # "Root" => Len(io_state) >= 2 /\ root_tag.tag = NullTag
          /\ TopFrame.cls = "Root" =>
               /\ root_tag.tag.kind = tag_type_id
               /\ io_state' = <<>>
               /\ pc' = "loop"
               /\ m_position' = m_position
               /\ root_tag' = root_tag
     /\ pc = "loop" /\ io_state = <<>> =>
          /\ pc' = "done"
          /\ io_state' = <<>>
          /\ returned' = [name |-> root_tag.name, tag |-> root_tag.tag,
                          returned |-> TRUE]
          /\ returned'.tag.kind = tag_type_id]_vars

\* the Root frame has been activated with a Compound of one entry in the
\* output slot: the stack is empty and the loop is about to end
C20_Witness ==
  /\ pc = "loop"
  /\ io_state = <<>>
  /\ root_tag.tag.kind = TAG_TYPE_COMPOUND
  /\ Cardinality(DOMAIN root_tag.tag.value) = 1

\* what a frame has gathered so far
Gathered(frame) ==
  CASE frame.cls = "Compound" -> frame.m_tag
    [] frame.cls = "List" -> frame.m_list_tag
    [] OTHER -> <<>>

\* the top frame is a container frame and the step removes it
TopFrameDelivers ==
  /\ Running /\ pc' = "loop"
  /\ TopFrame.cls # "Root"
  /\ Len(io_state') < Len(io_state)

\* C21: a container is handed to the frame beneath it once, complete, and
\* its frame is removed in the same step.  A Compound frame hands over only
\* on reading End, a List frame of containers only with no element remaining
\* and one of a simple kind only after reading all of them; what arrives
\* beneath (in the output slot, at the end of a List, under the pending name
\* of a Compound) is everything the frame gathered.  Pushing a child puts
\* nothing into the parent or the output slot, and a frame with a child above
\* it gathers nothing, so what a parent or the slot holds is never a
\* container still being filled.
C21_DeliveredOnceWhenComplete ==
  [][/\ TopFrameDelivers =>
          /\ Len(io_state') = Len(io_state) - 1
          /\ \A i \in 1..(Len(io_state') - 1) : io_state'[i] = io_state[i]
          /\ TopFrame.cls = "Compound" =>
               /\ m_data[m_position + 1] = TAG_TYPE_END
               /\ m_position' = m_position + 1
          /\ TopFrame.cls = "List" /\ TopFrame.m_type_id \notin SimpleKinds =>
               /\ IsZero(TopFrame.m_remaining_reads)
               /\ m_position' = m_position
          /\ \E tag \in
               {CASE Beneath.cls = "Root" -> root_tag'.tag
                  [] Beneath.cls = "List" ->
                       io_state'[Len(io_state')].m_list_tag[Len(Beneath.m_list_tag) + 1]
                  [] Beneath.cls = "Compound" ->
                       io_state'[Len(io_state')].m_tag[Beneath.m_next_tag_name]} :
               \/ Beneath.cls = "Compound"
                    /\ Beneath.m_next_tag_name \in DOMAIN Beneath.m_tag
                    /\ io_state'[Len(io_state')] = Beneath
               \/ /\ tag.kind =
                       (IF TopFrame.cls = "List" THEN TAG_TYPE_LIST ELSE TAG_TYPE_COMPOUND)
                  /\ TopFrame.cls = "Compound" => tag.value = TopFrame.m_tag
                  /\ TopFrame.cls = "List" =>
                       /\ tag.value.T = TopFrame.m_type_id
                       /\ Len(tag.value.values) >= Len(TopFrame.m_list_tag)
                       /\ SubSeq(tag.value.values, 1, Len(TopFrame.m_list_tag)) =
                            TopFrame.m_list_tag
                       /\ TopFrame.m_type_id \notin SimpleKinds =>
                            tag.value.values = TopFrame.m_list_tag
     /\ Running /\ pc' = "loop" /\ ~TopFrameDelivers =>
          /\ root_tag' = root_tag
          /\ \A i \in 1..(Len(io_state) - 1) : io_state'[i] = io_state[i]
          /\ TopFrame.cls # "Root" =>
               /\ Len(io_state') >= Len(io_state)
               /\ Len(io_state') > Len(io_state) =>
                    /\ Gathered(io_state'[Len(io_state)]) = Gathered(TopFrame)
                    /\ Gathered(io_state'[Len(io_state')]) = <<>>
     /\ Running /\ Len(io_state) >= 2 => root_tag.tag = NullTag]_vars

\* a List frame holds, as its first element, a finished Compound with an
\* entry, and is still open
C21_Witness ==
  /\ Running
  /\ TopFrame.cls = "List"
  /\ TopFrame.m_type_id = TAG_TYPE_COMPOUND
  /\ Len(TopFrame.m_list_tag) = 1
  /\ DOMAIN TopFrame.m_list_tag[1].value # {}

\* the call was the sign decoding as read_int_array_tag instantiates it
IntArrayElementDecoded ==
  /\ call.op = "twos_complement_decode"
  /\ call.inst = [size |-> 4, rt_signed |-> FALSE, it_signed |-> TRUE]

\* C22: every element of an IntArray is decoded as the two's-complement
\* signed 32-bit value of its four big-endian bytes, for every 32-bit
\* pattern, those with the sign bit set included (FF FF FF FF is -1,
\* 80 00 00 00 is -2147483648).
C22_IntArrayElementsDecoded ==
  IntArrayElementDecoded =>
    call.defined /\ ToSigned(call.value) = WireInt(call.raw)

\* the input errors of the taxonomy as read_nbt raises them
InputErrors ==
  {"PrematureEof", "IoError: List tag had a tag type of TAG_End"}
    \cup UnknownKindErrors

\* C23: the engine's contract-violation errors are unreachable from
\* read_nbt (no std::logic_error from read_simple_tag, new_read_state_for or
\* a List frame's add_tag, no finish_tag without a frame beneath), and every
\* failure of read_nbt is PrematureEof or IoError.
C23_OnlyInputErrors ==
  /\ err \notin {"logic_error", "undefined"}
  /\ pc = "error" => err \in InputErrors

\* C24: read_nbt never moves the cursor back, so the bytes are read in
\* stream order and each once, and when it returns a List- or Compound-rooted
\* document the cursor stands just behind that document's encoding: nothing
\* that follows the root's End or last element has been read, whatever it is.
C24_ConsumesExactlyTheDocument ==
  [][/\ m_position' >= m_position
     /\ m_position' <= Len(m_data')
     /\ pc' = "done" /\ tag_type_id' \in {TAG_TYPE_LIST, TAG_TYPE_COMPOUND} =>
          /\ WireStream(FALSE).st = "ok"
          /\ m_position' = WireStream(FALSE).pos
          /\ m_data' = m_data
     /\ pc = "done" => m_position' = m_position]_vars

\* a Compound holding a Compound has been returned with bytes left unread
C24_Witness ==
  /\ pc = "done"
  /\ tag_type_id = TAG_TYPE_COMPOUND
  /\ m_position < Len(m_data)
  /\ \E n \in DOMAIN returned.tag.value :
       /\ returned.tag.value[n].kind = TAG_TYPE_COMPOUND
       /\ DOMAIN returned.tag.value[n].value # {}

\* read_nbt is about to read the root kind id End
EndRootNext == pc = "start" /\ Len(m_data) >= 1 /\ m_data[1] = TAG_TYPE_END

\* C25: when the root kind id is End, read_nbt still reads the root name,
\* failing with PrematureEof (and returning nothing) if the name is missing
\* or cut short; otherwise it pushes no frame, reads no byte after the name
\* and returns without error a RootTag with that name and no value.
C25_EndRootIsEmptyDocument ==
  [][EndRootNext =>
       IF NameEnd(1) < 0
       THEN /\ pc' = "error"
            /\ err' = "PrematureEof"
            /\ returned' = NoResult
       ELSE /\ pc' = "done"
            /\ err' = "none"
            /\ io_state' = <<>>
            /\ open' = 0
            /\ activations' = 0
            /\ m_position' = NameEnd(1)
            /\ returned' = [name |-> SubSeq(m_data, 4, NameEnd(1)), tag |-> NullTag,
                            returned |-> TRUE]]_vars

\* the document "End named x" has been returned as a RootTag named "x" with
\* no value
C25_Witness ==
  /\ pc = "done"
  /\ m_data = <<TAG_TYPE_END, 0, 1, 120>>
  /\ returned = [name |-> <<120>>, tag |-> NullTag, returned |-> TRUE]
  /\ io_state = <<>>

\* the length field that the array decoder called last read
DeclaredLength == SubSeq(m_data, call.before + 1, call.before + 4)

\* read_simple_tag was asked for a ByteArray or IntArray whose length field
\* could be read and declares more than the bytes that follow it
ArrayLongerThanInput ==
  /\ call.op = "read_simple_tag"
  /\ call.tag_type \in {TAG_TYPE_BYTE_ARRAY, TAG_TYPE_INT_ARRAY}
  /\ call.before + 4 <= Len(m_data)
  /\ \/ ~Fits(DeclaredLength)
     \/ SmallVal(DeclaredLength) > Len(m_data) - (call.before + 4)

\* C26: decoding a ByteArray or IntArray whose declared length exceeds the
\* bytes remaining in the input fails with PrematureEof; a hostile length
\* field causes no failure other than the input errors.
C26_HostileLengthIsPrematureEof ==
  ArrayLongerThanInput => call.err = "PrematureEof"

\* C27: pretty_print completes without raising an error for every RootTag
\* that read_nbt can return: every value kind the decoder can place in a
\* tree and every root outcome, a root with no value included, is handled.
C27_PrettyPrintCompletes ==
  call.op = "pretty_print" => call.err = "none"

====
